---- MODULE Spec2Model ----
(***************************************************************************)
(* Model of the Binary-Artifacts check of aklevans/scorecard: the          *)
(* self-check (checks.BinaryArtifacts), the dependency traversal           *)
(* (checks.BinaryArtifactsDependencies, in its two copies) and the         *)
(* deps.dev package client (internal/packageclient/depsdev.go).            *)
(*                                                                         *)
(* Conventions.  A Go error is a sequence of strings, outermost message    *)
(* first, <<>> being nil; a sentinel wrapped with %w stays in the chain.   *)
(* A Go pointer result is a sequence too: <<>> is nil, <<v>> points to v.  *)
(* A Go string the code searches or trims is a sequence of tokens, every   *)
(* token standing for the characters it spells.                            *)
(***************************************************************************)
EXTENDS Integers, Sequences, FiniteSets

\* ------------------------------------------------------------------ bounds
MaxNodes == 2
MaxFiles == 2
MaxLinks == 2
MaxVersions == 2

\* ------------------------------------------------- errors and raw helpers
Nil == <<>>

ErrDepsDevAPI == "deps.dev"
ErrProjNotFoundInDepsDev == "project not found in deps.dev"
ErrPkgNotFoundInDepsDev == "package not found in deps.dev"

\* errors.Is(err, target): target occurs in the chain of err
ErrorsIs(err, target) == \E i \in 1..Len(err) : err[i] = target

\* fmt.Errorf("msg: %w", err)
Wrap(msg, err) == <<msg>> \o err

StatusOK == 200
StatusNotFound == 404

\* what the deps.dev service may answer to one GET: the transport may fail
\* (client.Do returns an error), else a status and a body that json.Unmarshal
\* accepts or not
Statuses == {StatusOK, StatusNotFound, 429, 500}

\* a response that is not a decodable 200 carries no body the code reads:
\* its body is the empty one
Responses(Bodies, empty) ==
  [transport : {FALSE}, status : {StatusOK}, decodable : {FALSE}, body : {empty}]
    \cup [transport : {TRUE}, status : Statuses \ {StatusOK}, decodable : {FALSE}, body : {empty}]
    \cup [transport : {TRUE}, status : {StatusOK}, decodable : {FALSE}, body : {empty}]
    \cup [transport : {TRUE}, status : {StatusOK}, decodable : {TRUE}, body : Bodies]

\* --------------------------------------------------------------- strings
sourceRepoLabel == "SOURCE_REPO"

\* the characters a token of one character can be ("." of the regexp matches
\* any of them)
OneChar == {".", "/", "o", "r", "x"}

Schemes == {<<>>, <<"https://">>}
Hosts ==
  { <<"github", ".", "com">>, <<"golang", ".", "org">>,
    <<"not", "github", ".", "com">>, <<"github", "x", "com">> }
Paths ==
  { <<>>, <<"/", "o", "/", "r">>, <<"/", "github", ".", "com", "/", "o">> }
Suffixes == {<<>>, <<".git">>}

\* a URL of version metadata, kept by its parts; the code sees URLString
URLs == [scheme : Schemes, host : Hosts, path : Paths, suffix : Suffixes]

URLString(u) == u.scheme \o u.host \o u.path \o u.suffix

\* strings.TrimSuffix(s, ".git")
TrimSuffix_Kept(s) == s

TrimSuffix(s) ==
  IF Len(s) > 0 /\ s[Len(s)] = ".git" THEN SubSeq(s, 1, Len(s) - 1) ELSE s

\* does regexp "github.com/.*" match s at position i: "github", any one
\* character, "com/", then the rest of the string
GithubDomainAt(s, i) ==
  /\ i + 3 <= Len(s)
  /\ s[i] = "github"
  /\ s[i + 1] \in OneChar
  /\ s[i + 2] = "com"
  /\ s[i + 3] = "/"

\* githubDomain.FindString(s): the leftmost match, "" when there is none
githubDomain(s) ==
  LET at == {i \in 1..Len(s) : GithubDomainAt(s, i)}
  IN  IF at = {} THEN <<>>
      ELSE LET first == CHOOSE i \in at : \A j \in at : i <= j
           IN  SubSeq(s, first, Len(s))

\* the links of version metadata: the URL of a link with another label is
\* never read, one such link stands for all of them
Homepage ==
  [Label |-> "HOMEPAGE",
   URL |-> [scheme |-> <<"https://">>, host |-> <<"golang", ".", "org">>,
            path |-> <<>>, suffix |-> <<>>]]
Links == [Label : {sourceRepoLabel}, URL : URLs] \cup {Homepage}

RECURSIVE SeqsUpTo(_, _)
SeqsUpTo(S, n) ==
  IF n = 0 THEN {<<>>}
  ELSE LET shorter == SeqsUpTo(S, n - 1)
       IN  shorter \cup {Append(s, x) : s \in {t \in shorter : Len(t) = n - 1}, x \in S}

\* ------------------------------------------------- the deps.dev client
\* bodies of the four endpoints, as far as the code reads them
VersionDatas == [Links : SeqsUpTo(Links, MaxLinks)]
PackageVersion == [Version : {"v1", "v2"}, IsDefault : BOOLEAN]
PackageDatas == [Versions : SeqsUpTo(PackageVersion, MaxVersions)]
\* deps.dev tags a node SELF, DIRECT or INDIRECT; the unit test leaves the tag empty
Relations == {"SELF", "DIRECT", "INDIRECT", ""}
DependencyNode == [Relation : Relations]
PackageDependenciesBodies == [Nodes : SeqsUpTo(DependencyNode, MaxNodes)]
ProjectPackageVersionsBodies == [Versions : 0..1]

GetProjectPackageVersions(resp) ==
  IF ~resp.transport
    THEN [res |-> <<>>, err |-> <<"deps.dev GetProjectPackageVersions", "transport">>]
  ELSE IF resp.status = StatusNotFound
    THEN [res |-> <<>>, err |-> <<ErrProjNotFoundInDepsDev>>]
  ELSE IF resp.status # StatusOK
    THEN [res |-> <<>>, err |-> <<"status", ErrDepsDevAPI>>]
  ELSE IF ~resp.decodable
    THEN [res |-> <<>>, err |-> <<"deps.dev json.Unmarshal", "json">>]
  ELSE [res |-> <<resp.body>>, err |-> Nil]

GetPackage(resp) ==
  IF ~resp.transport
    THEN [res |-> <<>>, err |-> <<"deps.dev GetPackage", "transport">>]
  ELSE IF resp.status = StatusNotFound
    THEN [res |-> <<>>, err |-> <<ErrPkgNotFoundInDepsDev>>]
  ELSE IF resp.status # StatusOK
    THEN [res |-> <<>>, err |-> <<"status", ErrDepsDevAPI>>]
  ELSE IF ~resp.decodable
    THEN [res |-> <<>>, err |-> <<"deps.dev json.Unmarshal", "json">>]
  ELSE [res |-> <<resp.body>>, err |-> Nil]

GetVersion_NotFoundIsAPIError(resp) ==
  IF ~resp.transport
    THEN [res |-> <<>>, err |-> <<"deps.dev GetVersion", "transport">>]
  ELSE IF resp.status # StatusOK
    THEN [res |-> <<>>, err |-> <<"status", ErrDepsDevAPI>>]
  ELSE IF ~resp.decodable
    THEN [res |-> <<>>, err |-> <<"deps.dev json.Unmarshal", "json">>]
  ELSE [res |-> <<resp.body>>, err |-> Nil]

GetVersion(resp) ==
  IF ~resp.transport
    THEN [res |-> <<>>, err |-> <<"deps.dev GetVersion", "transport">>]
  ELSE IF resp.status = StatusNotFound
    THEN [res |-> <<>>, err |-> <<ErrPkgNotFoundInDepsDev>>]
  ELSE IF resp.status # StatusOK
    THEN [res |-> <<>>, err |-> <<"status", ErrDepsDevAPI>>]
  ELSE IF ~resp.decodable
    THEN [res |-> <<>>, err |-> <<"deps.dev json.Unmarshal", "json">>]
  ELSE [res |-> <<resp.body>>, err |-> Nil]

DefaultVersion_LastDefault(versions) ==
  LET defaults == {i \in 1..Len(versions) : versions[i].IsDefault}
  IN  IF defaults = {} THEN versions[1].Version
      ELSE versions[CHOOSE i \in defaults : \A j \in defaults : i >= j].Version

\* the version GetPackageDependencies asks for: Versions[0], replaced by the
\* first entry with IsDefault
DefaultVersion(versions) ==
  LET defaults == {i \in 1..Len(versions) : versions[i].IsDefault}
  IN  IF defaults = {} THEN versions[1].Version
      ELSE versions[CHOOSE i \in defaults : \A j \in defaults : i <= j].Version

GetPackageDependencies_ErrIgnored(pkgResp, depResp) ==
  LET packageInfo == GetPackage(pkgResp)
      versions == IF packageInfo.err = Nil THEN packageInfo.res[1].Versions ELSE <<>>
      requests == <<"GetPackage", IF versions = <<>> THEN "" ELSE DefaultVersion(versions)>>
  IN  IF depResp.transport /\ depResp.status = StatusOK /\ depResp.decodable
        THEN [res |-> <<depResp.body>>, err |-> Nil,
              requests |-> requests, panicked |-> FALSE]
      ELSE [res |-> <<>>, err |-> <<"deps.dev GetPackageDependencies">>,
            requests |-> requests, panicked |-> FALSE]

\* GetPackageDependencies(pkgResp, depResp): pkgResp answers the GetPackage
\* request, depResp the dependencies request if it is issued.  requests lists
\* the requests issued, in order; panicked is the index-out-of-range fault of
\* Versions[0] on an empty version list (then nothing is returned).
GetPackageDependencies(pkgResp, depResp) ==
  LET packageInfo == GetPackage(pkgResp)
  IN  IF packageInfo.err # Nil
        THEN [res |-> <<>>, err |-> Wrap("deps.dev GetPackage", packageInfo.err),
              requests |-> <<"GetPackage">>, panicked |-> FALSE]
      ELSE IF Len(packageInfo.res[1].Versions) = 0
        THEN [res |-> <<>>, err |-> Nil,
              requests |-> <<"GetPackage">>, panicked |-> TRUE]
      ELSE
        LET defaultVersion == DefaultVersion(packageInfo.res[1].Versions)
            requests == <<"GetPackage", defaultVersion>>
        IN  IF ~depResp.transport
              THEN [res |-> <<>>, err |-> <<"deps.dev GetPackageDependencies", "transport">>,
                    requests |-> requests, panicked |-> FALSE]
            ELSE IF depResp.status = StatusNotFound
              THEN [res |-> <<>>, err |-> <<ErrPkgNotFoundInDepsDev>>,
                    requests |-> requests, panicked |-> FALSE]
            ELSE IF depResp.status # StatusOK
              THEN [res |-> <<>>, err |-> <<"status", ErrDepsDevAPI>>,
                    requests |-> requests, panicked |-> FALSE]
            ELSE IF ~depResp.decodable
              THEN [res |-> <<>>, err |-> <<"deps.dev json.Unmarshal", "json">>,
                    requests |-> requests, panicked |-> FALSE]
            ELSE [res |-> <<depResp.body>>, err |-> Nil,
                  requests |-> requests, panicked |-> FALSE]

\* the first link labelled SOURCE_REPO decides (the loop breaks on it)
RECURSIVE TrimmedURL(_)
TrimmedURL(links) ==
  IF links = <<>> THEN <<>>
  ELSE IF links[1].Label = sourceRepoLabel
    THEN githubDomain(TrimSuffix(URLString(links[1].URL)))
  ELSE TrimmedURL(Tail(links))

\* GetURI returns (string, error); the string is a token sequence, "" is <<>>
GetURI(resp) ==
  LET versionInfo == GetVersion(resp)
  IN  IF versionInfo.err # Nil
        THEN [uri |-> <<>>, err |-> <<"deps.dev GetVersion: name">>]
      ELSE LET trimmedURL == TrimmedURL(versionInfo.res[1].Links)
           IN  IF trimmedURL = <<>>
                 THEN [uri |-> <<>>, err |-> <<"deps.dev GetURI: name">>]
               ELSE [uri |-> trimmedURL, err |-> Nil]

\* ----------------------------------------------- results of the check
CheckBinaryArtifacts == "Binary-Artifacts"
selfLabel == "SELF"

MaxResultScore == 10
MinResultScore == 0
InconclusiveResultScore == 0 - 1

\* checker.CreateRuntimeErrorResult(name, e)
CreateRuntimeErrorResult(name, e) ==
  [Name |-> name, Score |-> InconclusiveResultScore, Error |-> e,
   Reason |-> "runtime error", Findings |-> <<>>]

\* checker.CreateInconclusiveResult(name, reason)
CreateInconclusiveResult(name, reason) ==
  [Name |-> name, Score |-> InconclusiveResultScore, Error |-> Nil,
   Reason |-> reason, Findings |-> <<>>]

\* sce.WithMessage(sce.ErrScorecardInternal, err.Error())
WithMessage(err) == <<"internal error">> \o err

NoResult ==
  [Name |-> "", Score |-> InconclusiveResultScore, Error |-> Nil,
   Reason |-> "", Findings |-> <<>>]

IsRuntimeError(r) == r.Error # Nil
IsInconclusive(r) == r.Error = Nil /\ r.Score = InconclusiveResultScore
IsScored(r) == r.Error = Nil /\ r.Score \in MinResultScore..MaxResultScore

\* BinaryArtifactData.Files: one entry per binary artifact found, here the
\* repository it was found in (0 the primary repository, i the dependency at
\* node i of the graph)
FilesOf(origin, n) == [k \in 1..n |-> origin]

Run_SilentWhenClean(files) ==
  [k \in 1..Len(files) |-> [Outcome |-> "Negative", Path |-> files[k]]]

\* zrunner.Run(raw, probes.BinaryArtifacts): the probe emits one Negative
\* finding per binary artifact, and one Positive finding when there is none
Run(files) ==
  IF files = <<>> THEN <<[Outcome |-> "Positive", Path |-> 0 - 1]>>
  ELSE [k \in 1..Len(files) |-> [Outcome |-> "Negative", Path |-> files[k]]]

Negatives(findings) ==
  Cardinality({k \in 1..Len(findings) : findings[k].Outcome = "Negative"})

Evaluate_EmptyIsClean(name, findings) ==
  IF Negatives(findings) = 0
    THEN [Name |-> name, Score |-> MaxResultScore, Error |-> Nil,
          Reason |-> "no binaries found in the repo", Findings |-> <<>>]
  ELSE
    LET score == MaxResultScore - Negatives(findings)
    IN  [Name |-> name,
         Score |-> IF score < MinResultScore THEN MinResultScore ELSE score,
         Error |-> Nil, Reason |-> "binaries present in source code",
         Findings |-> <<>>]

Evaluate_NoFloor(name, findings) ==
  IF findings = <<>>
    THEN CreateInconclusiveResult(name, "no findings")
  ELSE [Name |-> name, Score |-> MaxResultScore - Negatives(findings), Error |-> Nil,
        Reason |-> "binaries present in source code", Findings |-> <<>>]

\* evaluation.BinaryArtifacts(name, findings, dl), without ret.Findings
Evaluate(name, findings) ==
  IF findings = <<>>
    THEN CreateInconclusiveResult(name, "no findings")
  ELSE IF Negatives(findings) = 0
    THEN [Name |-> name, Score |-> MaxResultScore, Error |-> Nil,
          Reason |-> "no binaries found in the repo", Findings |-> <<>>]
  ELSE
    LET score == MaxResultScore - Negatives(findings)
    IN  [Name |-> name,
         Score |-> IF score < MinResultScore THEN MinResultScore ELSE score,
         Error |-> Nil, Reason |-> "binaries present in source code",
         Findings |-> <<>>]

\* the warnings evaluation.BinaryArtifacts logs to the detail logger: one per
\* Negative finding
Warnings(findings) == Negatives(findings)

\* ret := evaluation.BinaryArtifacts(...); ret.Findings = findings
Evaluated(findings) ==
  [Evaluate(CheckBinaryArtifacts, findings) EXCEPT !.Findings = findings]

\* ------------------------------------------------------------- state
VARIABLES
  variant,       \* the copy of package checks that runs
  entry,         \* the function called on the request
  pc,            \* the position in it
  packageName,   \* c.ProjectClient.GetPackageName()
  system,        \* c.ProjectClient.GetSystem()
  primaryFiles,  \* the binary artifacts the primary repository holds
  pRawResults,   \* getRawResults(c).BinaryArtifactResults.Files
  dlogger,       \* the warnings logged to c.Dlogger
  dependencies,  \* dependencies.Nodes
  idx,           \* the node the range loop is at
  numSkipped,
  rawData,       \* rawData.Files
  depURI,
  repoClient,    \* the repository client of this iteration, 0 for none
  repo,          \* the repo of this iteration, as its URI
  nextClient,    \* the clients created so far, plus one
  ret,           \* the CheckResult returned
  events,        \* the calls made on collaborators, in order
  call,          \* the last call made directly on the deps.dev client
  cancelled      \* c.Ctx is done

vars ==
  <<variant, entry, pc, packageName, system, primaryFiles, pRawResults, dlogger,
    dependencies, idx, numSkipped, rawData, depURI, repoClient, repo, nextClient,
    ret, events, call, cancelled>>

\* the locals of one loop iteration
locals == <<depURI, repoClient, repo>>
\* the request as the caller gave it
request == <<variant, entry, packageName, system, primaryFiles>>

Named == "binary_artifact.go"
Unnamed == "part_000"
Variants == {Named, Unnamed}
Entries == {"BinaryArtifacts", "BinaryArtifactsDependencies"}

NoCall == [fn |-> "none"]

Event(op, node, client, ok) == [op |-> op, node |-> node, client |-> client, ok |-> ok]

\* the responses the traversal draws for one dependency carry at most one link
TraversalVersionResponses ==
  Responses([Links : SeqsUpTo(Links, 1)], [Links |-> <<>>])
PackageResponses == Responses(PackageDatas, [Versions |-> <<>>])
DependenciesResponses == Responses(PackageDependenciesBodies, [Nodes |-> <<>>])

Init ==
  /\ variant \in Variants
  /\ entry \in Entries
  /\ pc = "start"
  /\ packageName \in {"", "pkg"}
  /\ system \in {"", "GO"}
  /\ primaryFiles \in 0..MaxFiles
  /\ pRawResults = <<>>
  /\ dlogger = 0
  /\ dependencies = <<>>
  /\ idx = 0
  /\ numSkipped = 0
  /\ rawData = <<>>
  /\ depURI = <<>>
  /\ repoClient = 0
  /\ repo = <<>>
  /\ nextClient = 1
  /\ ret = NoResult
  /\ events = <<>>
  /\ call = NoCall
  /\ cancelled = FALSE

\* return r from the function
Return(r) ==
  /\ ret' = r
  /\ pc' = "done"

\* the caller invokes the function on the request
Call ==
  /\ pc = "start"
  /\ pc' = entry
  /\ UNCHANGED <<request, cancelled, pRawResults, dlogger, dependencies, idx, numSkipped, rawData,
                 locals, nextClient, ret, events, call>>

\* -------------------------------------------------- checks.BinaryArtifacts
\* the line left commented out: return BinaryArtifactsDependencies(c)
BinaryArtifacts_Delegated ==
  /\ pc = "BinaryArtifacts"
  /\ pc' = "BinaryArtifactsDependencies"
  /\ UNCHANGED <<request, cancelled, pRawResults, dlogger, dependencies, idx, numSkipped, rawData,
                 locals, nextClient, ret, events, call>>

\* rawData, err := raw.BinaryArtifacts(c), up to pRawResults.BinaryArtifactResults = rawData
BinaryArtifacts_Raw ==
  /\ pc = "BinaryArtifacts"
  /\ \E ok \in BOOLEAN :
       /\ events' = Append(events, Event("raw.BinaryArtifacts", 0, 0, ok))
       /\ IF ~ok
            THEN /\ Return(CreateRuntimeErrorResult(CheckBinaryArtifacts, WithMessage(<<"raw">>)))
                 /\ UNCHANGED pRawResults
            ELSE /\ pRawResults' = FilesOf(0, primaryFiles)
                 /\ pc' = "BinaryArtifacts_Run"
                 /\ UNCHANGED ret
  /\ UNCHANGED <<request, cancelled, dlogger, dependencies, idx, numSkipped, rawData, locals,
                 nextClient, call>>

\* the calls of the last stretch of both functions: zrunner.Run, and
\* evaluation.BinaryArtifacts when the probe run returned no error
ProbeEvents(ok) ==
  <<Event("zrunner.Run", 0, 0, ok)>> \o
  (IF ok THEN <<Event("evaluation.BinaryArtifacts", 0, 0, TRUE)>> ELSE <<>>)

BinaryArtifacts_Run_ErrIgnored ==
  /\ pc = "BinaryArtifacts_Run"
  /\ \E ok \in BOOLEAN :
       /\ events' = events \o
            <<Event("zrunner.Run", 0, 0, ok), Event("evaluation.BinaryArtifacts", 0, 0, TRUE)>>
       /\ Return(Evaluated(Run(pRawResults)))
       /\ dlogger' = dlogger + Warnings(Run(pRawResults))
  /\ UNCHANGED <<request, cancelled, pRawResults, dependencies, idx, numSkipped, rawData, locals,
                 nextClient, call>>

\* findings, err := zrunner.Run(...), up to return ret
BinaryArtifacts_Run ==
  /\ pc = "BinaryArtifacts_Run"
  /\ \E ok \in BOOLEAN :
       /\ events' = events \o ProbeEvents(ok)
       /\ IF ~ok
            THEN /\ Return(CreateRuntimeErrorResult(CheckBinaryArtifacts, WithMessage(<<"probe">>)))
                 /\ UNCHANGED dlogger
            ELSE /\ Return(Evaluated(Run(pRawResults)))
                 /\ dlogger' = dlogger + Warnings(Run(pRawResults))
  /\ UNCHANGED <<request, cancelled, pRawResults, dependencies, idx, numSkipped, rawData, locals,
                 nextClient, call>>

\* ------------------------------------- checks.BinaryArtifactsDependencies
\* binary_artifact.go: the package name and system must be known, else the
\* result is inconclusive.  part_000: host and project are split off
\* c.Repo.URI(), a coordinate host/owner/repo.
Dependencies_Package ==
  /\ pc = "BinaryArtifactsDependencies"
  /\ IF variant = Named /\ (packageName = "" \/ system = "")
       THEN Return(CreateInconclusiveResult(CheckBinaryArtifacts, "Couldn't find package name"))
       ELSE /\ pc' = "GetPackageDependencies"
            /\ UNCHANGED ret
  /\ UNCHANGED <<request, cancelled, pRawResults, dlogger, dependencies, idx, numSkipped, rawData,
                 locals, nextClient, events, call>>

\* dependencies, err := c.ProjectClient.GetPackageDependencies(...), up to numSkipped := 0
Dependencies_GetPackageDependencies ==
  /\ pc = "GetPackageDependencies"
  /\ \E pkgResp \in PackageResponses, depResp \in DependenciesResponses :
       LET r == GetPackageDependencies(pkgResp, depResp)
       IN  /\ events' = Append(events, Event("GetPackageDependencies", 0, 0,
                                             r.err = Nil /\ ~r.panicked))
           /\ IF r.panicked
                THEN /\ pc' = "panic"
                     /\ UNCHANGED <<ret, dependencies, idx>>
              ELSE IF r.err # Nil
                THEN /\ Return(CreateRuntimeErrorResult(CheckBinaryArtifacts, WithMessage(r.err)))
                     /\ UNCHANGED <<dependencies, idx>>
              ELSE /\ dependencies' = r.res[1].Nodes
                   /\ idx' = 1
                   /\ pc' = "range"
                   /\ UNCHANGED ret
  /\ UNCHANGED <<request, cancelled, pRawResults, dlogger, numSkipped, rawData, locals, nextClient, call>>

\* is node dep left out of the traversal: if dep.Relation == selfLabel { continue }
SkipIndirect(dep) == variant = Named /\ dep.Relation # "DIRECT"

SkipSelf(dep) == variant = Named /\ dep.Relation = selfLabel

\* for _, dep := range dependencies.Nodes
Dependencies_Range ==
  /\ pc = "range"
  /\ IF idx > Len(dependencies)
       THEN /\ pc' = "finish"
            /\ UNCHANGED idx
     ELSE IF SkipSelf(dependencies[idx])
       THEN /\ idx' = idx + 1
            /\ UNCHANGED pc
     ELSE /\ pc' = "GetURI"
          /\ UNCHANGED idx
  /\ UNCHANGED <<request, cancelled, pRawResults, dlogger, dependencies, numSkipped, rawData, locals,
                 nextClient, ret, events, call>>

\* http.NewRequestWithContext(ctx, ...) and d.client.Do(req): once the context
\* is done the request fails in the transport
ContextAllows(resp) == cancelled => ~resp.transport

\* what a failed GetURI does to numSkipped
Skipped_NotCounted(n) == n

Skipped(n) == n + 1

\* depURI, err := c.ProjectClient.GetURI(...); on an error the node is skipped
Dependencies_GetURI ==
  /\ pc = "GetURI"
  /\ \E resp \in TraversalVersionResponses :
       LET r == GetURI(resp)
       IN  /\ ContextAllows(resp)
           /\ events' = Append(events, Event("GetURI", idx, 0, r.err = Nil))
           /\ IF r.err # Nil
                THEN /\ numSkipped' = Skipped(numSkipped)
                     /\ idx' = idx + 1
                     /\ pc' = "range"
                     /\ UNCHANGED depURI
                ELSE /\ depURI' = r.uri
                     /\ pc' = IF variant = Named THEN "CreateGithubRepoClient" ELSE "GetClients"
                     /\ UNCHANGED <<numSkipped, idx>>
  /\ UNCHANGED <<request, cancelled, pRawResults, dlogger, dependencies, rawData, repoClient, repo,
                 nextClient, ret, call>>

Dependencies_CreateGithubRepoClient_Shared ==
  /\ pc = "CreateGithubRepoClient"
  /\ repoClient' = 1
  /\ nextClient' = 2
  /\ events' = Append(events, Event("CreateGithubRepoClient", idx, 1, TRUE))
  /\ pc' = "GetClients"
  /\ UNCHANGED <<request, cancelled, pRawResults, dlogger, dependencies, idx, numSkipped, rawData,
                 depURI, repo, ret, call>>

\* binary_artifact.go: repoClient := c.ProjectClient.CreateGithubRepoClient(c.Ctx, logger)
Dependencies_CreateGithubRepoClient ==
  /\ pc = "CreateGithubRepoClient"
  /\ repoClient' = nextClient
  /\ nextClient' = nextClient + 1
  /\ events' = Append(events, Event("CreateGithubRepoClient", idx, nextClient, TRUE))
  /\ pc' = "GetClients"
  /\ UNCHANGED <<request, cancelled, pRawResults, dlogger, dependencies, idx, numSkipped, rawData,
                 depURI, repo, ret, call>>

\* repo, ... err := checker.GetClients(c.Ctx, depURI, ...); part_000 takes its
\* repository client from this call too
Dependencies_GetClients ==
  /\ pc = "GetClients"
  /\ \E ok \in BOOLEAN :
       /\ events' = Append(events,
            Event("GetClients", idx, IF ok /\ variant = Unnamed THEN nextClient ELSE 0, ok))
       /\ IF ~ok
            THEN /\ Return(CreateRuntimeErrorResult(CheckBinaryArtifacts, WithMessage(<<"GetClients">>)))
                 /\ UNCHANGED <<repo, repoClient, nextClient>>
            ELSE /\ repo' = depURI
                 /\ IF variant = Unnamed
                      THEN /\ repoClient' = nextClient
                           /\ nextClient' = nextClient + 1
                      ELSE UNCHANGED <<repoClient, nextClient>>
                 /\ pc' = "InitRepo"
                 /\ UNCHANGED ret
  /\ UNCHANGED <<request, cancelled, pRawResults, dlogger, dependencies, idx, numSkipped, rawData,
                 depURI, call>>

\* clients.HeadSHA
HeadSHA == "HEAD"

\* the InitRepo call with its commit and depth arguments
InitRepoEvent(node, client, ok) ==
  [op |-> "InitRepo", node |-> node, client |-> client, ok |-> ok,
   commitSHA |-> HeadSHA, commitDepth |-> 0]

\* err = repoClient.InitRepo(repo, clients.HeadSHA, 0)
Dependencies_InitRepo ==
  /\ pc = "InitRepo"
  /\ \E ok \in BOOLEAN :
       /\ events' = Append(events, InitRepoEvent(idx, repoClient, ok))
       /\ IF ~ok
            THEN Return(CreateRuntimeErrorResult(CheckBinaryArtifacts, WithMessage(<<"InitRepo">>)))
            ELSE /\ pc' = "raw.BinaryArtifacts"
                 /\ UNCHANGED ret
  /\ UNCHANGED <<request, cancelled, pRawResults, dlogger, dependencies, idx, numSkipped, rawData,
                 locals, nextClient, call>>

\* depRawData, err := raw.BinaryArtifacts(&dc), up to
\* rawData.Files = append(rawData.Files, depRawData.Files...)
Dependencies_Raw ==
  /\ pc = "raw.BinaryArtifacts"
  /\ \E ok \in BOOLEAN, n \in 0..MaxFiles :
       /\ ~ok => n = 0
       /\ events' = Append(events, Event("raw.BinaryArtifacts", idx, repoClient, ok))
       /\ IF ~ok
            THEN /\ Return(CreateRuntimeErrorResult(CheckBinaryArtifacts, WithMessage(<<"raw">>)))
                 /\ UNCHANGED <<rawData, idx, locals>>
            ELSE /\ rawData' = rawData \o FilesOf(idx, n)
                 /\ idx' = idx + 1
                 /\ depURI' = <<>>
                 /\ repoClient' = 0
                 /\ repo' = <<>>
                 /\ pc' = "range"
                 /\ UNCHANGED ret
  /\ UNCHANGED <<request, cancelled, pRawResults, dlogger, dependencies, numSkipped, nextClient, call>>

\* pRawResults.BinaryArtifactResults = rawData, up to return ret
Dependencies_Finish ==
  /\ pc = "finish"
  /\ pRawResults' = rawData
  /\ \E ok \in BOOLEAN :
       /\ events' = events \o ProbeEvents(ok)
       /\ IF ~ok
            THEN /\ Return(CreateRuntimeErrorResult(CheckBinaryArtifacts, WithMessage(<<"probe">>)))
                 /\ UNCHANGED dlogger
            ELSE /\ Return(Evaluated(Run(rawData)))
                 /\ dlogger' = dlogger + Warnings(Run(rawData))
  /\ UNCHANGED <<request, cancelled, dependencies, idx, numSkipped, rawData, locals, nextClient, call>>

Next ==
  \/ Call
  \/ BinaryArtifacts_Raw
  \/ BinaryArtifacts_Run
  \/ Dependencies_Package
  \/ Dependencies_GetPackageDependencies
  \/ Dependencies_Range
  \/ Dependencies_GetURI
  \/ Dependencies_CreateGithubRepoClient
  \/ Dependencies_GetClients
  \/ Dependencies_InitRepo
  \/ Dependencies_Raw
  \/ Dependencies_Finish

Spec == Init /\ [][Next]_vars

\* ------------------------------------- the same functions under a request
\* context that its owner may cancel while the loop over the nodes runs
LoopSteps ==
  {"range", "GetURI", "CreateGithubRepoClient", "GetClients", "InitRepo",
   "raw.BinaryArtifacts"}

\* the owner of c.Ctx cancels it; the functions never read c.Ctx.Done() or
\* c.Ctx.Err(), so no step of theirs changes
Cancel ==
  /\ pc \in LoopSteps
  /\ ~cancelled
  /\ cancelled' = TRUE
  /\ events' = Append(events, Event("ctx.cancel", 0, 0, TRUE))
  /\ UNCHANGED <<request, pc, pRawResults, dlogger, dependencies, idx, numSkipped, rawData,
                 locals, nextClient, ret, call>>

NextCancel == Next \/ Cancel

SpecCancel == Init /\ [][NextCancel]_vars

\* ------------------------------------- the deps.dev client, called directly
\* (as the e2e suite does): call records the responses the service gave and
\* what the method returned
VersionResponses == Responses(VersionDatas, [Links |-> <<>>])
ProjectPackageVersionsResponses ==
  Responses(ProjectPackageVersionsBodies, [Versions |-> 0])

InitClient ==
  /\ variant = Named
  /\ entry = "client"
  /\ pc = "client"
  /\ packageName = "pkg"
  /\ system = "GO"
  /\ primaryFiles = 0
  /\ pRawResults = <<>>
  /\ dlogger = 0
  /\ dependencies = <<>>
  /\ idx = 0
  /\ numSkipped = 0
  /\ rawData = <<>>
  /\ depURI = <<>>
  /\ repoClient = 0
  /\ repo = <<>>
  /\ nextClient = 1
  /\ ret = NoResult
  /\ events = <<>>
  /\ call = NoCall
  /\ cancelled = FALSE

\* the client keeps no state between calls: one call is a whole behaviour
orchestration ==
  <<request, cancelled, pRawResults, dlogger, dependencies, idx, numSkipped, rawData, locals,
    nextClient, ret, events>>

Client_GetProjectPackageVersions ==
  /\ pc = "client"
  /\ \E resp \in ProjectPackageVersionsResponses :
       LET r == GetProjectPackageVersions(resp)
       IN  call' = [fn |-> "GetProjectPackageVersions", resps |-> <<resp>>,
                    res |-> r.res, err |-> r.err, returned |-> TRUE]
  /\ pc' = "called"
  /\ UNCHANGED orchestration

Client_GetPackage ==
  /\ pc = "client"
  /\ \E resp \in PackageResponses :
       LET r == GetPackage(resp)
       IN  call' = [fn |-> "GetPackage", resps |-> <<resp>>,
                    res |-> r.res, err |-> r.err, returned |-> TRUE]
  /\ pc' = "called"
  /\ UNCHANGED orchestration

\* resps holds the responses to the requests issued, in order
Client_GetPackageDependencies ==
  /\ pc = "client"
  /\ \E pkgResp \in PackageResponses, depResp \in DependenciesResponses :
       LET r == GetPackageDependencies(pkgResp, depResp)
       IN  call' = [fn |-> "GetPackageDependencies",
                    resps |-> IF Len(r.requests) = 2 THEN <<pkgResp, depResp>>
                              ELSE <<pkgResp>>,
                    requests |-> r.requests,
                    res |-> r.res, err |-> r.err, returned |-> ~r.panicked]
  /\ pc' = "called"
  /\ UNCHANGED orchestration

Client_GetVersion ==
  /\ pc = "client"
  /\ \E resp \in VersionResponses :
       LET r == GetVersion(resp)
       IN  call' = [fn |-> "GetVersion", resps |-> <<resp>>,
                    res |-> r.res, err |-> r.err, returned |-> TRUE]
  /\ pc' = "called"
  /\ UNCHANGED orchestration

Client_GetURI ==
  /\ pc = "client"
  /\ \E resp \in VersionResponses :
       LET r == GetURI(resp)
       IN  call' = [fn |-> "GetURI", resps |-> <<resp>>,
                    uri |-> r.uri, err |-> r.err, returned |-> TRUE]
  /\ pc' = "called"
  /\ UNCHANGED orchestration

NextClient ==
  \/ Client_GetProjectPackageVersions
  \/ Client_GetPackage
  \/ Client_GetPackageDependencies
  \/ Client_GetVersion
  \/ Client_GetURI

SpecClient == InitClient /\ [][NextClient]_vars

\* ------------------------------------- the scoring policy on its own: the
\* self-check on a primary repository of up to MaxFindings binary artifacts,
\* and evaluation.BinaryArtifacts applied to a finding set
MaxFindings == 12

Outcomes == {"Positive", "Negative"}
FindingSets == SeqsUpTo([Outcome : Outcomes, Path : {0}], MaxFindings)

InitEval ==
  /\ variant = Named
  /\ entry \in {"BinaryArtifacts", "evaluation.BinaryArtifacts"}
  /\ pc = "start"
  /\ packageName = "pkg"
  /\ system = "GO"
  /\ primaryFiles \in IF entry = "BinaryArtifacts" THEN 0..MaxFindings ELSE {0}
  /\ pRawResults = <<>>
  /\ dlogger = 0
  /\ dependencies = <<>>
  /\ idx = 0
  /\ numSkipped = 0
  /\ rawData = <<>>
  /\ depURI = <<>>
  /\ repoClient = 0
  /\ repo = <<>>
  /\ nextClient = 1
  /\ ret = NoResult
  /\ events = <<>>
  /\ call = NoCall
  /\ cancelled = FALSE

\* ret := evaluation.BinaryArtifacts(name, findings, dl); ret.Findings = findings
Evaluation_BinaryArtifacts ==
  /\ pc = "evaluation.BinaryArtifacts"
  /\ \E findings \in FindingSets :
       /\ Return(Evaluated(findings))
       /\ dlogger' = dlogger + Warnings(findings)
  /\ events' = Append(events, Event("evaluation.BinaryArtifacts", 0, 0, TRUE))
  /\ UNCHANGED <<request, cancelled, pRawResults, dependencies, idx, numSkipped, rawData, locals,
                 nextClient, call>>

NextEval ==
  \/ Call
  \/ BinaryArtifacts_Raw
  \/ BinaryArtifacts_Run
  \/ Evaluation_BinaryArtifacts

SpecEval == InitEval /\ [][NextEval]_vars

\* ------------------------------------------------------------ claims
EventIndexes == 1..Len(events)
Failed(k) == ~events[k].ok
\* the calls made for the dependency at node i
CallsFor(i) == {k \in EventIndexes : events[k].node = i}
\* the result the primary repository gets on its own facts
SelfCheckResult == Evaluated(Run(FilesOf(0, primaryFiles)))

\* C1: a failure of GetURI, GetClients, InitRepo or raw.BinaryArtifacts for one
\* dependency (a node that is not SELF) is never fatal: when the traversal has returned and its own
\* probe run did not fault, the result is no runtime error, every node that
\* is not SELF was evaluated, and numSkipped counts the failed dependencies.
C1_DependencyFailureNeverFatal ==
  (/\ pc = "done"
   /\ \E k \in EventIndexes :
        /\ events[k].node > 0
        /\ dependencies[events[k].node].Relation # selfLabel
        /\ Failed(k)
   /\ \A k \in EventIndexes : events[k].node = 0 => ~Failed(k))
  => /\ ~IsRuntimeError(ret)
     /\ \A i \in 1..Len(dependencies) :
          dependencies[i].Relation # selfLabel => CallsFor(i) # {}
     /\ numSkipped = Cardinality({i \in 1..Len(dependencies) :
                                    \E k \in CallsFor(i) : Failed(k)})

C3_EnumerationFailureNotRuntimeError ==
  (/\ pc = "done"
   /\ \E k \in EventIndexes : events[k].op = "GetPackageDependencies" /\ Failed(k))
  => ~IsRuntimeError(ret)

\* C4: the score of every returned scored CheckResult is the score the primary
\* repository gets on its own, whatever the dependencies hold.
C4_DependenciesNeverChangeScore ==
  (pc = "done" /\ IsScored(ret)) => ret.Score = SelfCheckResult.Score

\* C5: a failed GetURI skips the node: numSkipped grows by exactly one, the
\* loop goes on to the next node, nothing is returned, no client is created,
\* and the raw results, the collected files and the log stay as they are; no
\* client call is ever made for such a node and no file of it is collected.
C5_GetURIFailureSkips ==
  /\ [][(pc = "GetURI" /\ events' # events /\ ~events'[Len(events')].ok)
          => /\ numSkipped' = numSkipped + 1
             /\ idx' = idx + 1
             /\ pc' = "range"
             /\ nextClient' = nextClient
             /\ locals' = locals
             /\ rawData' = rawData
             /\ pRawResults' = pRawResults
             /\ dlogger' = dlogger
             /\ ret' = ret]_vars
  /\ [](\A k \in EventIndexes :
          (events[k].op = "GetURI" /\ Failed(k)) =>
            /\ CallsFor(events[k].node) = {k}
            /\ \A f \in 1..Len(rawData) : rawData[f] # events[k].node)

C5_Witness ==
  /\ pc = "done"
  /\ numSkipped = 1
  /\ Len(events) > 2
  /\ events[2] = Event("GetURI", 1, 0, FALSE)
  /\ \E k \in CallsFor(2) : events[k].op = "raw.BinaryArtifacts" /\ events[k].ok
  /\ IsScored(ret)

\* C6: no call is ever made for a node whose relation is SELF.
C6_SelfNeverTraversed ==
  \A k \in EventIndexes :
    events[k].node > 0 => dependencies[events[k].node].Relation # selfLabel

C8_DiscoveryWhenNoPackage ==
  (/\ pc = "done"
   /\ entry = "BinaryArtifactsDependencies"
   /\ packageName = "" \/ system = "")
  => /\ \E k \in EventIndexes : events[k].op = "GetProjectPackageVersions"
     /\ (\E k \in EventIndexes : events[k].op = "GetProjectPackageVersions" /\ Failed(k))
          => ret = SelfCheckResult

\* the response to the last request a client call issued
LastResponse == call.resps[Len(call.resps)]
NotFoundOf(fn) ==
  IF fn = "GetProjectPackageVersions" THEN ErrProjNotFoundInDepsDev
  ELSE ErrPkgNotFoundInDepsDev

\* C9: for GetProjectPackageVersions, GetPackage, GetPackageDependencies and
\* GetVersion, a 404 gives the NotFound error, any other non-200 status the
\* service error and not NotFound, a result is returned only when every
\* response was a decodable 200, and a non-nil error comes with a nil result.
C9_StatusMapping ==
  call.fn \in {"GetProjectPackageVersions", "GetPackage", "GetPackageDependencies", "GetVersion"}
  => /\ (LastResponse.transport /\ LastResponse.status = 404)
          => /\ ErrorsIs(call.err, NotFoundOf(call.fn))
             /\ ~ErrorsIs(call.err, ErrDepsDevAPI)
     /\ (LastResponse.transport /\ LastResponse.status \notin {200, 404})
          => /\ ErrorsIs(call.err, ErrDepsDevAPI)
             /\ ~ErrorsIs(call.err, NotFoundOf(call.fn))
     /\ call.res # <<>>
          => \A i \in 1..Len(call.resps) :
               /\ call.resps[i].transport
               /\ call.resps[i].status = 200
               /\ call.resps[i].decodable
     /\ call.err # Nil => call.res = <<>>
     /\ call.returned => (call.err # Nil \/ call.res # <<>>)

C9_Witness ==
  /\ call.fn = "GetPackageDependencies"
  /\ Len(call.resps) = 2
  /\ LastResponse.status = 404
  /\ call.err = <<ErrPkgNotFoundInDepsDev>>
  /\ call.res = <<>>

\* C10: when the GetVersion lookup succeeded and the metadata has no
\* SOURCE_REPO link on host github.com, GetURI returns an error and "".
C10_OnlyGithubHostAccepted ==
  (/\ call.fn = "GetURI"
   /\ GetVersion(call.resps[1]).err = Nil
   /\ \A i \in 1..Len(call.resps[1].body.Links) :
        LET link == call.resps[1].body.Links[i]
        IN  link.Label = sourceRepoLabel => link.URL.host # <<"github", ".", "com">>)
  => call.err # Nil /\ call.uri = <<>>

\* the first SOURCE_REPO link of the version metadata a GetURI call was
\* answered with; Homepage when there is none
FirstSourceRepo(links) ==
  LET at == {i \in 1..Len(links) : links[i].Label = sourceRepoLabel}
  IN  IF at = {} THEN Homepage
      ELSE links[CHOOSE i \in at : \A j \in at : i <= j]

\* is u the URL "https://github.com/OWNER/REPO.git"
IsGithubGitURL(u) ==
  /\ u.scheme = <<"https://">>
  /\ u.host = <<"github", ".", "com">>
  /\ u.path # <<>>
  /\ u.suffix = <<".git">>

\* C11: GetURI on version metadata whose source-repository link is
\* "https://github.com/OWNER/REPO.git" returns "github.com/OWNER/REPO" and a
\* nil error: the scheme and the trailing ".git" are gone, the rest is kept
C11_GithubGitLinkNormalised ==
  (/\ call.fn = "GetURI"
   /\ GetVersion(call.resps[1]).err = Nil
   /\ IsGithubGitURL(FirstSourceRepo(call.resps[1].body.Links).URL))
  => LET u == FirstSourceRepo(call.resps[1].body.Links).URL
     IN  call.err = Nil /\ call.uri = u.host \o u.path

C11_Witness ==
  /\ call.fn = "GetURI"
  /\ Len(call.resps[1].body.Links) = 2
  /\ call.resps[1].body.Links[1] = Homepage
  /\ IsGithubGitURL(call.resps[1].body.Links[2].URL)
  /\ call.err = Nil
  /\ call.uri = <<"github", ".", "com", "/", "o", "/", "r">>

\* the step at which the context was cancelled, 0 when it never was
CancelledAt ==
  LET at == {k \in EventIndexes : events[k].op = "ctx.cancel"}
  IN  IF at = {} THEN 0 ELSE CHOOSE k \in at : TRUE

\* the nodes whose evaluation the cancellation cut off: their source
\* repository was asked for after the context was done
CutOff ==
  {events[k].node : k \in {j \in EventIndexes :
      CancelledAt > 0 /\ j > CancelledAt /\ events[j].op = "GetURI"}}

\* C12: when the request context is cancelled while the traversal is in
\* progress, the partial results are discarded: the function never returns a
\* scored result in which the cut-off dependencies count as merely skipped
C12_CancelledTraversalNotScored ==
  (pc = "done" /\ CutOff # {}) => ~IsScored(ret)

\* C13: when raw.BinaryArtifacts or zrunner.Run fails during the self-check,
\* BinaryArtifacts returns a runtime-error result for Binary-Artifacts, never
\* a numeric score, and the evaluator is not called
C13_SelfCheckFaultIsRuntimeError ==
  (/\ entry = "BinaryArtifacts"
   /\ \E k \in EventIndexes :
        events[k].op \in {"raw.BinaryArtifacts", "zrunner.Run"} /\ Failed(k))
  => /\ pc = "done"
     /\ IsRuntimeError(ret)
     /\ ret.Name = CheckBinaryArtifacts
     /\ ~IsScored(ret)
     /\ ret.Findings = <<>>
     /\ dlogger = 0
     /\ \A k \in EventIndexes : events[k].op # "evaluation.BinaryArtifacts"

C13_Witness ==
  /\ entry = "BinaryArtifacts"
  /\ pc = "done"
  /\ primaryFiles = MaxFiles
  /\ Len(events) = 2
  /\ events[1].op = "raw.BinaryArtifacts" /\ events[1].ok
  /\ events[2].op = "zrunner.Run" /\ Failed(2)
  /\ IsRuntimeError(ret)

\* findings with its first Negative finding taken out
WithoutNegative(findings) ==
  LET at == {k \in 1..Len(findings) : findings[k].Outcome = "Negative"}
      first == CHOOSE k \in at : \A j \in at : k <= j
  IN  SubSeq(findings, 1, first - 1) \o SubSeq(findings, first + 1, Len(findings))

\* C14: the score is the maximum less one point per Negative finding and
\* never below 0, so it never rises when a Negative finding is added; two
\* binary artifacts give score 8 and two warnings
C14_ScoreFlooredAndMonotone ==
  (pc = "done" /\ ret.Error = Nil /\ Negatives(ret.Findings) > 0)
  => LET n == Negatives(ret.Findings)
         fewer == WithoutNegative(ret.Findings)
     IN  /\ ret.Score = IF n >= MaxResultScore - MinResultScore
                          THEN MinResultScore ELSE MaxResultScore - n
         /\ IsScored(ret)
         /\ fewer # <<>> => ret.Score <= Evaluate(ret.Name, fewer).Score
         /\ dlogger = n
         /\ entry = "BinaryArtifacts" => n = primaryFiles
         /\ n = 2 => ret.Score = 8 /\ dlogger = 2

C14_Witness ==
  /\ entry = "BinaryArtifacts"
  /\ pc = "done"
  /\ primaryFiles = MaxResultScore + 1
  /\ Negatives(ret.Findings) = primaryFiles
  /\ ret.Score = MinResultScore
  /\ ret.Error = Nil

\* C15: a primary repository without binary artifacts gives no Negative
\* finding and no warning, and a finding set that is all Positive gives the
\* maximum score
C15_CleanRepositoryScoresMax ==
  /\ (/\ entry = "BinaryArtifacts"
      /\ pc = "done"
      /\ primaryFiles = 0
      /\ ret.Error = Nil)
     => /\ ret.Findings # <<>>
        /\ Negatives(ret.Findings) = 0
        /\ dlogger = 0
        /\ ret.Score = MaxResultScore
  /\ (/\ pc = "done"
      /\ ret.Error = Nil
      /\ ret.Findings # <<>>
      /\ \A k \in 1..Len(ret.Findings) : ret.Findings[k].Outcome = "Positive")
     => ret.Score = MaxResultScore /\ dlogger = 0

C15_Witness ==
  /\ entry = "BinaryArtifacts"
  /\ pc = "done"
  /\ primaryFiles = 0
  /\ Len(ret.Findings) = 1
  /\ ret.Findings[1].Outcome = "Positive"
  /\ ret.Score = MaxResultScore
  /\ dlogger = 0

\* C16: the evaluator applied to an empty finding set gives an inconclusive
\* result, never a score from 0 to 10; the inconclusive result is neither a
\* runtime error nor the maximum score
C16_EmptyFindingsInconclusive ==
  (/\ entry = "evaluation.BinaryArtifacts"
   /\ pc = "done"
   /\ ret.Findings = <<>>)
  => /\ IsInconclusive(ret)
     /\ ~IsScored(ret)
     /\ ~IsRuntimeError(ret)
     /\ ret.Score \notin MinResultScore..MaxResultScore
     /\ ret.Name = CheckBinaryArtifacts
     /\ dlogger = 0

C16_Witness ==
  /\ entry = "evaluation.BinaryArtifacts"
  /\ pc = "done"
  /\ ret.Findings = <<>>
  /\ ret.Score = InconclusiveResultScore
  /\ ret.Error = Nil

\* C17: no mixing of findings across snapshots: the findings attached to a
\* returned result come from one repository snapshot, and the traversal never
\* puts data gathered from dependency repositories into the raw
\* binary-artifact results of the primary request
C17_NoStaleMixing ==
  /\ \A k \in 1..Len(pRawResults) : pRawResults[k] = 0
  /\ pc = "done" =>
       \A j, k \in 1..Len(ret.Findings) : ret.Findings[j].Path = ret.Findings[k].Path

\* did the service answer a request with a decodable 200
Answered(resp) == resp.transport /\ resp.status = StatusOK /\ resp.decodable

\* C18: GetPackageDependencies issues the GetPackage request first, and the
\* dependencies request only after GetPackage succeeded; when GetPackage fails
\* it returns nil and an error that wraps the failure, and issues no
\* dependencies request
C18_GetPackageFirst ==
  call.fn = "GetPackageDependencies"
  => /\ call.requests # <<>>
     /\ call.requests[1] = "GetPackage"
     /\ Len(call.requests) <= 2
     /\ Len(call.requests) = 2 => Answered(call.resps[1])
     /\ ~Answered(call.resps[1])
          => /\ call.requests = <<"GetPackage">>
             /\ call.returned
             /\ call.res = <<>>
             /\ call.err = Wrap("deps.dev GetPackage", GetPackage(call.resps[1]).err)
             /\ GetPackage(call.resps[1]).err # Nil

C18_Witness ==
  /\ call.fn = "GetPackageDependencies"
  /\ call.resps[1].transport
  /\ call.resps[1].status = StatusNotFound
  /\ call.requests = <<"GetPackage">>
  /\ call.res = <<>>
  /\ call.err = <<"deps.dev GetPackage", ErrPkgNotFoundInDepsDev>>

\* C19: for a non-empty version list the dependencies request asks for the
\* default version: the version of the first entry marked IsDefault, and the
\* version of the first entry when no entry is marked
C19_DefaultVersionQueried ==
  (call.fn = "GetPackageDependencies" /\ Len(call.requests) = 2)
  => LET versions == call.resps[1].body.Versions
         marked == {i \in 1..Len(versions) : versions[i].IsDefault}
     IN  /\ versions # <<>>
         /\ marked = {} => call.requests[2] = versions[1].Version
         /\ \A i \in marked :
              (\A j \in marked : i <= j) => call.requests[2] = versions[i].Version

C19_Witness ==
  /\ call.fn = "GetPackageDependencies"
  /\ Len(call.requests) = 2
  /\ Len(call.resps[1].body.Versions) = 2
  /\ ~call.resps[1].body.Versions[1].IsDefault
  /\ call.resps[1].body.Versions[2].IsDefault
  /\ call.resps[1].body.Versions[1].Version # call.resps[1].body.Versions[2].Version
  /\ call.requests[2] = call.resps[1].body.Versions[2].Version

\* the place of a call in the evaluation of one dependency
StepOf(op) ==
  CASE op = "GetURI" -> 1
    [] op = "CreateGithubRepoClient" -> 2
    [] op = "GetClients" -> 3
    [] op = "InitRepo" -> 4
    [] op = "raw.BinaryArtifacts" -> 5
    [] OTHER -> 0

\* is call k the one that hands the loop its repository client
CreatesClient(k) ==
  /\ events[k].ok
  /\ events[k].client > 0
  /\ \/ events[k].op = "CreateGithubRepoClient"
     \/ events[k].op = "GetClients" /\ variant = Unnamed

\* C20: the evaluation of a dependency goes GetURI, creation of a fresh
\* repository client, InitRepo of that client at HeadSHA with depth 0, raw
\* fact collection against that client; facts are never collected with a
\* client whose InitRepo has not succeeded, and no client serves two
\* dependencies or is the client of the primary repository
C20_OwnClientInFixedOrder ==
  \A k \in EventIndexes :
    events[k].node > 0 =>
      LET e == events[k]
          first == k = 1 \/ events[k - 1].node # e.node
      IN  /\ StepOf(e.op) > 0
          /\ first => e.op = "GetURI"
          /\ ~first => /\ events[k - 1].ok
                       /\ StepOf(events[k - 1].op) < StepOf(e.op)
          /\ CreatesClient(k) => \A j \in 1..(k - 1) : events[j].client # e.client
          /\ e.op = "InitRepo"
               => /\ e.commitSHA = HeadSHA
                  /\ e.commitDepth = 0
                  /\ \E j \in 1..(k - 1) :
                       /\ CreatesClient(j)
                       /\ events[j].node = e.node
                       /\ events[j].client = e.client
          /\ e.op = "raw.BinaryArtifacts"
               => /\ events[k - 1].op = "InitRepo"
                  /\ events[k - 1].node = e.node
                  /\ events[k - 1].ok
                  /\ events[k - 1].client = e.client

C20_Witness ==
  /\ variant = Named
  /\ pc = "done"
  /\ \E j \in CallsFor(1), k \in CallsFor(2) :
       /\ events[j].op = "raw.BinaryArtifacts" /\ events[j].ok /\ events[j].client = 1
       /\ events[k].op = "raw.BinaryArtifacts" /\ events[k].ok /\ events[k].client = 2
  /\ IsScored(ret)

\* does the string s begin with "github.com/"
BeginsWithGithub(s) ==
  /\ Len(s) >= 4
  /\ SubSeq(s, 1, 4) = <<"github", ".", "com", "/">>

\* C21: GetURI returns "" exactly when it returns an error: either the error
\* is nil and the coordinate is non-empty and begins with "github.com/", or
\* the error is non-nil and the string is "", a failed GetVersion included
C21_EmptyExactlyOnError ==
  call.fn = "GetURI"
  => \/ call.err = Nil /\ call.uri # <<>> /\ BeginsWithGithub(call.uri)
     \/ call.err # Nil /\ call.uri = <<>>

\* C22: GetPackageDependencies never faults: whenever the GetPackage request
\* was answered with a package, an empty version list included, the call
\* returns a dependency graph or an error
C22_GetPackageDependenciesNeverFaults ==
  (call.fn = "GetPackageDependencies" /\ Answered(call.resps[1]))
  => /\ call.returned
     /\ call.res # <<>> \/ call.err # Nil

====
